---- MODULE Spec2Model ----
(***************************************************************************)
(* WaveForge wavetable editor: the App component's state (frames, cursor,  *)
(* playback, generator mode), the WaveformCanvas brush gesture, the        *)
(* HarmonicEditor debounce timer, the asynchronous image load and the      *)
(* audioUtils buffer functions.                                            *)
(*                                                                         *)
(* Samples are kept on a fixed grid: the integer v stands for the float    *)
(* v / AMP, and every arithmetic result that the code stores in a          *)
(* Float32Array is rounded to the grid (Q), as the typed array rounds it   *)
(* to a float32.  Indices are 0-based as in the code; a TLA+ sequence      *)
(* position is index + 1.  A table entry is a record [ref, data]: ref      *)
(* names the Float32Array object (its storage), data its samples.  Refs    *)
(* are renamed after every handler to the position of the object's first   *)
(* occurrence (Canon): object addresses are only observable up to          *)
(* renaming.                                                               *)
(*                                                                         *)
(* One action is one event handler or timer callback together with the     *)
(* React render and the effects that follow it.                            *)
(*                                                                         *)
(* The functions of audioUtils and the brush are also called directly      *)
(* (SpecCalls): call holds the arguments of one call, drawn by the initial *)
(* state, and the buffer the call returns or changes in place.             *)
(***************************************************************************)
EXTENDS Integers, Sequences, FiniteSets

VARIABLES
    frames,          \* App: useState<Float32Array[]>, sequence of [ref, data]
    currentIndex,    \* App: useState(0)
    isPlaying,       \* App: useState(false)
    mode,            \* App: useState<GeneratorMode>
    formula,         \* App: useState('Math.sin(x) * Math.cos(t * 5)')
    scanIntervalRef, \* App: interval handle; 0 = null, else the frames.length
                     \*      captured by the interval callback's closure
    harmonics,       \* HarmonicEditor: useState<number[]> (grid units)
    harmTimer,       \* HarmonicEditor: pending debounce timeout; -1 = none,
                     \*      else the currentIndex captured by onChange
    imgPending,      \* pending image loads: sorted sequence of captured
                     \*      currentIndex values (a multiset)
    isDrawing,       \* WaveformCanvas: useState(false)
    prevPosRef,      \* WaveformCanvas: useRef<{index, amp} | null>
    localDataRef,    \* WaveformCanvas: useRef<Float32Array>(data), by value
    mounted,         \* FALSE once an effect has thrown and React has
                     \*      unmounted the tree
    op,              \* the handler that ran last, with ".return" when it
                     \*      returned early (history variable)
    call             \* a direct call of one exported function: its name,
                     \*      its arguments and what it returned

vars == <<frames, currentIndex, isPlaying, mode, formula, scanIntervalRef,
          harmonics, harmTimer, imgPending, isDrawing, prevPosRef,
          localDataRef, mounted, op, call>>

-----------------------------------------------------------------------------
(* Bounds.  FRAME_SIZE and MAX_FRAMES are the program's constants (2048    *)
(* and 256) scaled down; AMP is the sample grid.                           *)

FRAME_SIZE == 4

MAX_FRAMES == 3

AMP == 1

\* Duplicate has no upper limit in the code; the model stops one past
\* MAX_FRAMES.
DupCap == MAX_FRAMES + 1

\* height in pixels of the 3D view's canvas (clicks at y in 0..View3DHeight)
View3DHeight == 4

\* number of harmonic sliders (16 in the code, scaled down)
NumHarmonics == 1

\* image loads that may be pending at once
MaxPendingImages == 1

\* width and height in pixels of the waveform canvas
CanvasWidth == 1

CanvasHeight == 1

-----------------------------------------------------------------------------
(* Arithmetic helpers *)

Abs(x) == IF x < 0 THEN -x ELSE x

Min(a, b) == IF a <= b THEN a ELSE b

Max(a, b) == IF a >= b THEN a ELSE b

\* num/den (den > 0) rounded to the nearest grid point, ties away from zero:
\* the rounding of a store into a Float32Array, on the model's grid.
Q(num, den) ==
    IF num >= 0 THEN (2 * num + den) \div (2 * den)
                ELSE -((2 * (-num) + den) \div (2 * den))

\* Math.sin(2*pi*num/den) in grid units (Bhaskara's rational approximation,
\* exact at the multiples of a quarter turn).
SinTurn(num, den) ==
    LET u == (2 * num) % (2 * den)
        h == IF u <= den THEN u ELSE u - den
        v == Q(AMP * 16 * h * (den - h), 5 * den * den - 4 * h * (den - h))
    IN  IF u <= den THEN v ELSE -v

-----------------------------------------------------------------------------
(* Buffers and the table *)

Indices == 0 .. FRAME_SIZE - 1

\* what reading a missing array element yields
UNDEFINED == [ref |-> 0, data |-> <<>>]

IsBuffer(e) == e.ref # 0

\* frames[i] of the code
At(fs, i) == IF i >= 0 /\ i < Len(fs) THEN fs[i + 1] ELSE UNDEFINED

\* a reference not used by any entry of fs: a newly allocated Float32Array
FreshRef(fs) == Len(fs) + 1

\* rename every object to the position of its first occurrence
Canon(fs) ==
    [p \in 1 .. Len(fs) |->
        IF IsBuffer(fs[p])
        THEN [ref  |-> CHOOSE q \in 1 .. p :
                            /\ fs[q].ref = fs[p].ref
                            /\ \A r \in 1 .. q - 1 : fs[r].ref # fs[p].ref,
              data |-> fs[p].data]
        ELSE UNDEFINED]

\* a slip of the copy: the array itself is pushed, not a copy of it
NewFloat32Array_Shared(fs, src) == src

\* new Float32Array(src): a new object holding a copy of src's samples;
\* new Float32Array(undefined) is an empty array
NewFloat32Array(fs, src) == [ref |-> FreshRef(fs), data |-> src.data]

generateSine == [i \in 1 .. FRAME_SIZE |-> SinTurn(i - 1, FRAME_SIZE)]

\* a slip of the mix: the weights of frameA and frameB are exchanged
interpolateFrames_Swapped(frameA, frameB, num, den) ==
    [i \in 1 .. FRAME_SIZE |->
        Q(frameA[i] * num + frameB[i] * (den - num), den)]

\* interpolateFrames with mix = num / den
interpolateFrames(frameA, frameB, num, den) ==
    [i \in 1 .. FRAME_SIZE |->
        Q(frameA[i] * (den - num) + frameB[i] * num, den)]

-----------------------------------------------------------------------------
(* Rendering: the draw effects of WaveformCanvas (frames[currentIndex]) and *)
(* Wavetable3D (every entry) read samples of the entry; on undefined they   *)
(* throw a TypeError, and React unmounts the application.                   *)

Renders(fs, ci) ==
    /\ IsBuffer(At(fs, ci))
    /\ \A p \in 1 .. Len(fs) : IsBuffer(fs[p])

\* the state left by a handler that set the table to fs and the cursor to ci
Commit(fs, ci) ==
    /\ frames' = Canon(fs)
    /\ currentIndex' = ci
    /\ mounted' = Renders(fs, ci)
    /\ localDataRef' = At(fs, ci).data

-----------------------------------------------------------------------------
(* generateFromFormula.  The expression is user text; the model knows the   *)
(* texts of Formulas.  Eval is one call func(x, t, i, FRAME_SIZE): a number *)
(* in grid units, NaN, an infinity (v is its sign) or a thrown exception.   *)

InitialFormula == "Math.sin(x) * Math.cos(t * 5)"

Formulas == {InitialFormula, "("}

\* new Function(...) accepts the text
Constructs(f) == f # "("

Num(v) == [k |-> "num", v |-> v]

Eval(f, i) ==
    CASE f = InitialFormula ->
            \* cos(5t) = sin(2 pi (5t/(2 pi) + 1/4)), pi = 355/113
            Num(Q(SinTurn(i, FRAME_SIZE)
                    * SinTurn(226 * i + 71 * FRAME_SIZE, 284 * FRAME_SIZE), AMP))
      [] f = "x"   -> Num(Q(AMP * 710 * i, 113 * FRAME_SIZE))
      [] f = "1/i" -> IF i = 0 THEN [k |-> "inf", v |-> 1] ELSE Num(Q(AMP, i))
      [] f = "0/i" -> IF i = 0 THEN [k |-> "nan", v |-> 0] ELSE Num(0)
      [] f = "-1/i" -> IF i = 0 THEN [k |-> "inf", v |-> -1] ELSE Num(Q(-AMP, i))
         \* x is a number: x.y is undefined, and undefined.z throws
      [] f = "i ? x.y.z : 1" -> IF i = 0 THEN Num(AMP)
                                          ELSE [k |-> "throw", v |-> 0]
      [] OTHER     -> [k |-> "throw", v |-> 0]

\* the hard clip of one evaluated sample
HardClip(r) ==
    LET v0 == IF r.k = "nan" THEN 0 ELSE IF r.k = "inf" THEN r.v * (AMP + 1) ELSE r.v
        v1 == IF v0 > AMP THEN AMP ELSE v0
    IN  IF v1 < -AMP THEN -AMP ELSE v1

\* a slip of the fallback: silence instead of the sine
generateFromFormula_Silent(f) ==
    IF Constructs(f) /\ \A i \in Indices : Eval(f, i).k # "throw"
    THEN [p \in 1 .. FRAME_SIZE |-> HardClip(Eval(f, p - 1))]
    ELSE [p \in 1 .. FRAME_SIZE |-> 0]

\* the loop runs inside the try block: an exception of new Function or of
\* any one call func(x, t, i, n) ends it, and the catch returns a sine
generateFromFormula(f) ==
    IF Constructs(f) /\ \A i \in Indices : Eval(f, i).k # "throw"
    THEN [p \in 1 .. FRAME_SIZE |-> HardClip(Eval(f, p - 1))]
    ELSE generateSine

-----------------------------------------------------------------------------
(* App: table operations *)

\* next = [...prev]; next[k] = v   (a JavaScript array grows, with holes,
\* when k is past its end)
ArraySet(fs, k, v) ==
    IF k < Len(fs)
    THEN [fs EXCEPT ![k + 1] = v]
    ELSE fs \o [p \in 1 .. k - Len(fs) |-> UNDEFINED] \o <<v>>

\* a slip of the filter: the last frame is dropped, whatever k
FilterOut_Last(fs, k) == SubSeq(fs, 1, Len(fs) - 1)

\* frames.filter((_, i) => i !== k)
FilterOut(fs, k) ==
    [p \in 1 .. Len(fs) - (IF k >= 0 /\ k < Len(fs) THEN 1 ELSE 0) |->
        IF p <= k THEN fs[p] ELSE fs[p + 1]]

\* handleWaveformChange of the render whose currentIndex was ci, called with
\* the samples newData (a buffer allocated by the caller)
handleWaveformChange(ci, newData) ==
    Commit(ArraySet(frames, ci, [ref |-> FreshRef(frames), data |-> newData]),
           currentIndex)

UnchangedEditors ==
    UNCHANGED <<harmonics, harmTimer, imgPending, isDrawing, prevPosRef>>

UnchangedPlayback == UNCHANGED <<isPlaying, scanIntervalRef>>

\* a slip of addFrame: the copy is taken of frames[0], not frames[currentIndex]
addFrame_CopiesFirst ==
    /\ mounted
    /\ IF Len(frames) >= MAX_FRAMES
       THEN /\ op' = "addFrame.return"
            /\ UNCHANGED <<frames, currentIndex, mounted, localDataRef>>
       ELSE /\ op' = "addFrame"
            /\ Commit(Append(frames, NewFloat32Array(frames, At(frames, 0))),
                      Len(frames))
    /\ UNCHANGED <<mode, formula>>
    /\ UnchangedPlayback
    /\ UNCHANGED call
    /\ UnchangedEditors

addFrame ==
    /\ mounted
    /\ IF Len(frames) >= MAX_FRAMES
       THEN /\ op' = "addFrame.return"
            /\ UNCHANGED <<frames, currentIndex, mounted, localDataRef>>
       ELSE /\ op' = "addFrame"
            /\ Commit(Append(frames, NewFloat32Array(frames, At(frames, currentIndex))),
                      Len(frames))
    /\ UNCHANGED <<mode, formula>>
    /\ UnchangedPlayback
    /\ UNCHANGED call
    /\ UnchangedEditors

\* the Duplicate button's inline handler
duplicateFrame ==
    /\ mounted
    /\ Len(frames) < DupCap
    /\ op' = "duplicateFrame"
    /\ Commit(Append(frames, NewFloat32Array(frames, At(frames, currentIndex))),
              currentIndex)
    /\ UNCHANGED <<mode, formula>>
    /\ UnchangedPlayback
    /\ UNCHANGED call
    /\ UnchangedEditors

\* a slip of deleteFrame: the guard is frames.length < 1
deleteFrame_GuardBelowOne ==
    /\ mounted
    /\ IF Len(frames) < 1
       THEN /\ op' = "deleteFrame.return"
            /\ UNCHANGED <<frames, currentIndex, mounted, localDataRef>>
       ELSE /\ op' = "deleteFrame"
            /\ LET newFrames == FilterOut(frames, currentIndex)
               IN  Commit(newFrames, Min(currentIndex, Len(newFrames) - 1))
    /\ UNCHANGED <<mode, formula>>
    /\ UnchangedPlayback
    /\ UNCHANGED call
    /\ UnchangedEditors

deleteFrame ==
    /\ mounted
    /\ IF Len(frames) <= 1
       THEN /\ op' = "deleteFrame.return"
            /\ UNCHANGED <<frames, currentIndex, mounted, localDataRef>>
       ELSE /\ op' = "deleteFrame"
            /\ LET newFrames == FilterOut(frames, currentIndex)
               IN  Commit(newFrames, Min(currentIndex, Len(newFrames) - 1))
    /\ UNCHANGED <<mode, formula>>
    /\ UnchangedPlayback
    /\ UNCHANGED call
    /\ UnchangedEditors

\* the timeline slider: min 0, max frames.length - 1
sliderSelect ==
    /\ mounted
    /\ op' = "sliderSelect"
    /\ \E v \in 0 .. Len(frames) - 1 : Commit(frames, v)
    /\ UNCHANGED <<mode, formula>>
    /\ UnchangedPlayback
    /\ UNCHANGED call
    /\ UnchangedEditors

\* Wavetable3D.handleClick for a click y pixels below the canvas top
ClickIndex(y, n) ==
    LET index == ((100 * y - 15 * View3DHeight) * n) \div (70 * View3DHeight)
    IN  Max(0, Min(n - 1, index))

wavetable3DClick ==
    /\ mounted
    /\ op' = "wavetable3DClick"
    /\ \E y \in 0 .. View3DHeight : Commit(frames, ClickIndex(y, Len(frames)))
    /\ UNCHANGED <<mode, formula>>
    /\ UnchangedPlayback
    /\ UNCHANGED call
    /\ UnchangedEditors

\* a slip of the map callback: the last position is not kept and the mix is
\* i / count
MorphFrame_OffByOne(fs, i, count) ==
    IF i = 0 THEN fs[1]
    ELSE [ref  |-> Len(fs) + 1 + i,
          data |-> interpolateFrames(fs[1].data, fs[count].data, i, count)]

\* morphBetween's frames.map callback for position i of count
MorphFrame(fs, i, count) ==
    IF i = 0 THEN fs[1]
    ELSE IF i = count - 1 THEN fs[count]
    ELSE [ref  |-> Len(fs) + 1 + i,
          data |-> interpolateFrames(fs[1].data, fs[count].data, i, count - 1)]

morphBetween ==
    /\ mounted
    /\ IF Len(frames) < 3
       THEN /\ op' = "morphBetween.return"
            /\ UNCHANGED <<frames, currentIndex, mounted, localDataRef>>
       ELSE /\ op' = "morphBetween"
            /\ Commit([p \in 1 .. Len(frames) |->
                          MorphFrame(frames, p - 1, Len(frames))],
                      currentIndex)
    /\ UNCHANGED <<mode, formula>>
    /\ UnchangedPlayback
    /\ UNCHANGED call
    /\ UnchangedEditors

\* the formula textarea
setFormula ==
    /\ mounted
    /\ mode = "MATH"
    /\ op' = "setFormula"
    /\ \E f \in Formulas : formula' = f
    /\ UNCHANGED <<frames, currentIndex, mounted, localDataRef, mode>>
    /\ UnchangedPlayback
    /\ UNCHANGED call
    /\ UnchangedEditors

handleFormulaGenerate ==
    /\ mounted
    /\ mode = "MATH"
    /\ op' = "handleFormulaGenerate"
    /\ handleWaveformChange(currentIndex, generateFromFormula(formula))
    /\ UNCHANGED <<mode, formula>>
    /\ UnchangedPlayback
    /\ UNCHANGED call
    /\ UnchangedEditors

-----------------------------------------------------------------------------
(* App: transport *)

\* togglePlay, with the effect that clears the scan when playback stops
togglePlay ==
    /\ mounted
    /\ op' = "togglePlay"
    /\ isPlaying' = ~isPlaying
    /\ scanIntervalRef' = IF isPlaying THEN 0 ELSE scanIntervalRef
    /\ UNCHANGED <<frames, currentIndex, mounted, localDataRef, mode, formula>>
    /\ UnchangedEditors
    /\ UNCHANGED call

handleScanPlayback ==
    /\ mounted
    /\ op' = "handleScanPlayback"
    /\ IF scanIntervalRef # 0
       THEN /\ scanIntervalRef' = 0
            /\ UNCHANGED isPlaying
       ELSE /\ isPlaying' = TRUE
            /\ scanIntervalRef' = Len(frames)
    /\ UNCHANGED <<frames, currentIndex, mounted, localDataRef, mode, formula>>
    /\ UnchangedEditors
    /\ UNCHANGED call

\* the interval callback: setCurrentIndex(prev => (prev + 1) % frames.length),
\* frames being the array of the render that started the scan
scanTick ==
    /\ mounted
    /\ scanIntervalRef # 0
    /\ op' = "scanTick"
    /\ Commit(frames, (currentIndex + 1) % scanIntervalRef)
    /\ UNCHANGED <<mode, formula>>
    /\ UnchangedPlayback
    /\ UNCHANGED call
    /\ UnchangedEditors

-----------------------------------------------------------------------------
(* audioUtils: normalizeBuffer, generateFromHarmonics *)

RECURSIVE MaxAbs(_, _)
MaxAbs(buffer, n) ==
    IF n = 0 THEN 0 ELSE Max(Abs(buffer[n]), MaxAbs(buffer, n - 1))

\* a slip of the scaler: its sign is inverted
normalizeBuffer_Inverted(buffer) ==
    LET maxAmp == MaxAbs(buffer, Len(buffer))
    IN  IF maxAmp * 10000 > AMP
        THEN [i \in 1 .. Len(buffer) |-> -Q(buffer[i] * AMP, maxAmp)]
        ELSE buffer

\* maxAmp > 0.0001 in grid units is maxAmp * 10000 > AMP
normalizeBuffer(buffer) ==
    LET maxAmp == MaxAbs(buffer, Len(buffer))
    IN  IF maxAmp * 10000 > AMP
        THEN [i \in 1 .. Len(buffer) |-> Q(buffer[i] * AMP, maxAmp)]
        ELSE buffer

\* the additive loop over harmonics h .. hs.length, from the partial sums acc
RECURSIVE AddHarmonics(_, _, _)
AddHarmonics(acc, hs, h) ==
    IF h > Len(hs) THEN acc
    ELSE IF hs[h] = 0 THEN AddHarmonics(acc, hs, h + 1)
    ELSE AddHarmonics(
            [i \in 1 .. FRAME_SIZE |->
                acc[i] + Q(hs[h] * SinTurn((i - 1) * h, FRAME_SIZE), AMP)],
            hs, h + 1)

generateFromHarmonics(hs) ==
    normalizeBuffer(AddHarmonics([i \in 1 .. FRAME_SIZE |-> 0], hs, 1))

-----------------------------------------------------------------------------
(* Generator mode and HarmonicEditor *)

GeneratorMode == {"DRAW", "MATH", "HARMONIC", "IMAGE"}

\* new Array(16).fill(0).map((_, i) => i === 0 ? 1 : 0)
InitialHarmonics == [h \in 1 .. NumHarmonics |-> IF h = 1 THEN AMP ELSE 0]

\* slider positions, 0 .. 1
HarmonicAmps == 0 .. AMP

\* the mode buttons.  HarmonicEditor is rendered in HARMONIC mode only: it
\* mounts with its initial state and its effect arms the debounce timer with
\* the onChange of this render; unmounting clears the timer.
setMode ==
    /\ mounted
    /\ op' = "setMode"
    /\ \E m \in GeneratorMode :
        /\ mode' = m
        /\ IF m = "HARMONIC" /\ mode # "HARMONIC"
           THEN harmonics' = InitialHarmonics /\ harmTimer' = currentIndex
           ELSE IF m # "HARMONIC" /\ mode = "HARMONIC"
           THEN harmonics' = InitialHarmonics /\ harmTimer' = -1
           ELSE UNCHANGED <<harmonics, harmTimer>>
    /\ UNCHANGED <<frames, currentIndex, mounted, localDataRef, formula,
                   imgPending, isDrawing, prevPosRef>>
    /\ UnchangedPlayback
    /\ UNCHANGED call

\* updateHarmonic, reset and randomize: setHarmonics(a new array), after
\* which the effect clears the pending timer and arms a new one
setHarmonics(hs) ==
    /\ mounted
    /\ mode = "HARMONIC"
    /\ harmonics' = hs
    /\ harmTimer' = currentIndex
    /\ UNCHANGED <<frames, currentIndex, mounted, localDataRef, mode, formula,
                   imgPending, isDrawing, prevPosRef>>
    /\ UnchangedPlayback
    /\ UNCHANGED call

updateHarmonic ==
    /\ op' = "updateHarmonic"
    /\ \E index \in 1 .. NumHarmonics, value \in HarmonicAmps :
        setHarmonics([harmonics EXCEPT ![index] = value])

reset ==
    /\ op' = "reset"
    /\ setHarmonics(InitialHarmonics)

randomize ==
    /\ op' = "randomize"
    /\ \E hs \in [1 .. NumHarmonics -> HarmonicAmps] : setHarmonics(hs)

\* the debounce timeout fires: onChange(harmonics) is handleHarmonicChange of
\* the render that armed it (mode HARMONIC, currentIndex = harmTimer)
harmonicTimerFires ==
    /\ mounted
    /\ harmTimer # -1
    /\ op' = "harmonicTimerFires"
    /\ handleWaveformChange(harmTimer, generateFromHarmonics(harmonics))
    /\ harmTimer' = -1
    /\ UNCHANGED <<mode, formula, harmonics, imgPending, isDrawing, prevPosRef>>
    /\ UnchangedPlayback
    /\ UNCHANGED call

-----------------------------------------------------------------------------
(* Image to wavetable *)

Images == {"black", "ramp"}

\* (r + g + b) / 3 of pixel i of the image drawn 2048 x 1
Brightness(img, i) ==
    IF img = "black" THEN 0 ELSE (255 * i) \div (FRAME_SIZE - 1)

\* newWave[i] = brightness / 127.5 - 1, then normalizeBuffer
ImageWave(img) ==
    normalizeBuffer([p \in 1 .. FRAME_SIZE |->
                        Q(AMP * (2 * Brightness(img, p - 1) - 255), 255)])

RECURSIVE InsertSorted(_, _)
InsertSorted(s, x) ==
    IF s = <<>> \/ x <= Head(s) THEN <<x>> \o s
    ELSE <<Head(s)>> \o InsertSorted(Tail(s), x)

RemoveAt(s, k) == [p \in 1 .. Len(s) - 1 |-> IF p < k THEN s[p] ELSE s[p + 1]]

\* a file is chosen: reader.onload and img.onload will call the
\* handleWaveformChange of this render
handleImageUpload ==
    /\ mounted
    /\ mode = "IMAGE"
    /\ Len(imgPending) < MaxPendingImages
    /\ op' = "handleImageUpload"
    /\ imgPending' = InsertSorted(imgPending, currentIndex)
    /\ UNCHANGED <<frames, currentIndex, mounted, localDataRef, mode, formula,
                   harmonics, harmTimer, isDrawing, prevPosRef>>
    /\ UnchangedPlayback
    /\ UNCHANGED call

\* img.onload of a pending load
imageLoaded ==
    /\ mounted
    /\ op' = "imageLoaded"
    /\ \E k \in 1 .. Len(imgPending), img \in Images :
        /\ handleWaveformChange(imgPending[k], ImageWave(img))
        /\ imgPending' = RemoveAt(imgPending, k)
    /\ UNCHANGED <<mode, formula, harmonics, harmTimer, isDrawing, prevPosRef>>
    /\ UnchangedPlayback
    /\ UNCHANGED call

\* the file is no image: img.onload never runs
imageLoadFails ==
    /\ mounted
    /\ op' = "imageLoadFails"
    /\ \E k \in 1 .. Len(imgPending) : imgPending' = RemoveAt(imgPending, k)
    /\ UNCHANGED <<frames, currentIndex, mounted, localDataRef, mode, formula,
                   harmonics, harmTimer, isDrawing, prevPosRef>>
    /\ UnchangedPlayback
    /\ UNCHANGED call

-----------------------------------------------------------------------------
(* WaveformCanvas: the brush gesture *)

brushSize == 15

\* a brush radius scaled down with FRAME_SIZE, so that a frame has samples
\* beyond the brush
ScaledBrushSize == 2

NoPos == [index |-> -1, amp |-> 0]

\* getCursorPosition for a pointer at pixel (x, y) after clamping to the
\* canvas: index = floor(x / width * FRAME_SIZE), amp = -(y / height * 2 - 1)
getCursorPosition(x, y) ==
    [index |-> (x * FRAME_SIZE) \div CanvasWidth,
     amp   |-> Q(AMP * (CanvasHeight - 2 * y), CanvasHeight)]

\* a slip of the mix: the amplitude is added to the existing sample, which
\* is not attenuated
applyBrushOf_Adds(radius, buffer, centerIndex, ampNum, ampDen) ==
    [p \in 1 .. Len(buffer) |->
        LET d == Abs(p - 1 - centerIndex)
        IN  IF d <= radius /\ p - 1 < FRAME_SIZE
            THEN Q(buffer[p] * radius * ampDen + ampNum * (radius - d),
                   radius * ampDen)
            ELSE buffer[p]]

\* a slip of the loop bounds: it runs from -(radius + 1) to radius + 1
applyBrushOf_Wide(radius, buffer, centerIndex, ampNum, ampDen) ==
    [p \in 1 .. Len(buffer) |->
        LET d == Abs(p - 1 - centerIndex)
        IN  IF d <= radius + 1 /\ p - 1 < FRAME_SIZE
            THEN Q(buffer[p] * d * ampDen + ampNum * (radius - d),
                   radius * ampDen)
            ELSE buffer[p]]

\* the loop of applyBrush, for a brush of the given radius and the amplitude
\* ampNum / ampDen (grid units): sample idx at distance d from the centre
\* becomes buffer[idx] * (1 - falloff) + amp * falloff, falloff = 1 - d / radius;
\* writes outside the buffer are skipped
applyBrushOf(radius, buffer, centerIndex, ampNum, ampDen) ==
    [p \in 1 .. Len(buffer) |->
        LET d == Abs(p - 1 - centerIndex)
        IN  IF d <= radius /\ p - 1 < FRAME_SIZE
            THEN Q(buffer[p] * d * ampDen + ampNum * (radius - d),
                   radius * ampDen)
            ELSE buffer[p]]

applyBrush(buffer, centerIndex, ampNum, ampDen) ==
    applyBrushOf(brushSize, buffer, centerIndex, ampNum, ampDen)

\* a slip of the loop bound: i < steps, the end of the line is left out
RECURSIVE BrushLine_StopsShort(_, _, _, _, _)
BrushLine_StopsShort(buffer, prev, curr, i, steps) ==
    IF i >= steps THEN buffer
    ELSE LET stepDir == IF curr.index > prev.index THEN 1 ELSE -1
             idx     == prev.index + i * stepDir
         IN  BrushLine_StopsShort(
                 applyBrush(buffer, idx,
                            prev.amp * steps + (curr.amp - prev.amp) * i, steps),
                 prev, curr, i + 1, steps)

\* handleMove's loop for (let i = from; i <= steps; i++)
RECURSIVE BrushLine(_, _, _, _, _)
BrushLine(buffer, prev, curr, i, steps) ==
    IF i > steps THEN buffer
    ELSE LET stepDir == IF curr.index > prev.index THEN 1 ELSE -1
             idx     == prev.index + i * stepDir
         IN  BrushLine(applyBrush(buffer, idx,
                                  prev.amp * steps + (curr.amp - prev.amp) * i,
                                  steps),
                       prev, curr, i + 1, steps)

\* the buffer handleMove builds from the copy newData
MoveStroke(newData, prev, curr) ==
    IF prev # NoPos
    THEN LET steps == Abs(curr.index - prev.index)
         IN  IF steps = 0
             THEN applyBrush(newData, curr.index, curr.amp, 1)
             ELSE BrushLine(newData, prev, curr, 0, steps)
    ELSE applyBrush(newData, curr.index, curr.amp, 1)

handleStart ==
    /\ mounted
    /\ IF mode # "DRAW"
       THEN /\ op' = "handleStart.return"
            /\ UNCHANGED <<frames, currentIndex, mounted, localDataRef,
                           isDrawing, prevPosRef>>
       ELSE \E x \in 0 .. CanvasWidth, y \in 0 .. CanvasHeight :
              LET pos == getCursorPosition(x, y)
              IN  /\ op' = "handleStart"
                  /\ isDrawing' = TRUE
                  /\ prevPosRef' = pos
                  /\ handleWaveformChange(currentIndex,
                         applyBrush(localDataRef, pos.index, pos.amp, 1))
    /\ UNCHANGED <<mode, formula, harmonics, harmTimer, imgPending>>
    /\ UnchangedPlayback
    /\ UNCHANGED call

handleMove ==
    /\ mounted
    /\ IF ~isDrawing \/ mode # "DRAW"
       THEN /\ op' = "handleMove.return"
            /\ UNCHANGED <<frames, currentIndex, mounted, localDataRef, prevPosRef>>
       ELSE \E x \in 0 .. CanvasWidth, y \in 0 .. CanvasHeight :
              LET curr == getCursorPosition(x, y)
              IN  /\ op' = "handleMove"
                  /\ prevPosRef' = curr
                  /\ handleWaveformChange(currentIndex,
                         MoveStroke(localDataRef, prevPosRef, curr))
    /\ UNCHANGED <<isDrawing, mode, formula, harmonics, harmTimer, imgPending>>
    /\ UnchangedPlayback
    /\ UNCHANGED call

\* a slip of handleEnd: the remembered position is kept
handleEnd_KeepsPrev ==
    /\ mounted
    /\ op' = "handleEnd"
    /\ isDrawing' = FALSE
    /\ UNCHANGED <<frames, currentIndex, mounted, localDataRef, mode, formula,
                   harmonics, harmTimer, imgPending, prevPosRef>>
    /\ UnchangedPlayback
    /\ UNCHANGED call

\* mouseup, mouseleave, touchend
handleEnd ==
    /\ mounted
    /\ op' = "handleEnd"
    /\ isDrawing' = FALSE
    /\ prevPosRef' = NoPos
    /\ UNCHANGED <<frames, currentIndex, mounted, localDataRef, mode, formula,
                   harmonics, harmTimer, imgPending>>
    /\ UnchangedPlayback
    /\ UNCHANGED call

-----------------------------------------------------------------------------
(* exportWavetableToWav.  The file is the sequence of its bytes; byte      *)
(* offset k of the code is position k + 1.                                 *)

numChannels == 1

sampleRate == 44100

bitsPerSample == 32

RECURSIVE Pow2(_)
Pow2(e) == IF e = 0 THEN 1 ELSE 2 * Pow2(e - 1)

\* the bytes bs stored at offset; a DataView write never moves other bytes
SetBytes(buffer, offset, bs) ==
    [p \in 1 .. Len(buffer) |->
        IF p - 1 >= offset /\ p - 1 < offset + Len(bs)
        THEN bs[p - offset] ELSE buffer[p]]

\* view.setUint16(offset, v, true) and view.setUint32(offset, v, true):
\* little-endian, the value taken modulo the field's width
Uint16LE(v) == <<v % 256, (v \div 256) % 256>>

Uint32LE(v) ==
    <<v % 256, (v \div 256) % 256, (v \div 65536) % 256, (v \div 16777216) % 256>>

\* writeString: the char codes of the four chunk tags
CharCodes(str) ==
    CASE str = "RIFF" -> <<82, 73, 70, 70>>
      [] str = "WAVE" -> <<87, 65, 86, 69>>
      [] str = "fmt " -> <<102, 109, 116, 32>>
      [] str = "data" -> <<100, 97, 116, 97>>

writeString(view, offset, str) == SetBytes(view, offset, CharCodes(str))

\* num / den >= 0 brought to m * 2^e with 1 <= m < 2: the record [n, d, e]
\* with m = n / d
RECURSIVE Normalized(_, _, _)
Normalized(n, d, e) ==
    IF n >= 2 * d THEN Normalized(n, 2 * d, e + 1)
    ELSE IF n < d THEN Normalized(2 * n, d, e - 1)
    ELSE [n |-> n, d |-> d, e |-> e]

\* the bytes of setFloat32(offset, undefined, true): a quiet NaN
Float32NaN == <<0, 0, 192, 127>>

\* the IEEE-754 binary32 encoding, little-endian, of the sample v (grid units)
Float32LE(v) ==
    IF v = 0 THEN <<0, 0, 0, 0>>
    ELSE LET sign == IF v < 0 THEN 1 ELSE 0
             r    == Normalized(Abs(v), AMP, 0)
             E    == r.e + 127
             m    == Q((r.n - r.d) * 8388608, r.d)
         IN  <<m % 256, (m \div 256) % 256,
               (E % 2) * 128 + (m \div 65536), sign * 128 + (E \div 2)>>

\* a slip of the RIFF size: the whole file length is written at offset 4
WavHeader_FileLength(view, dataSize) ==
    LET byteRate   == (sampleRate * numChannels * bitsPerSample) \div 8
        blockAlign == (numChannels * bitsPerSample) \div 8
        v1  == writeString(view, 0, "RIFF")
        v2  == SetBytes(v1, 4, Uint32LE(44 + dataSize))
        v3  == writeString(v2, 8, "WAVE")
        v4  == writeString(v3, 12, "fmt ")
        v5  == SetBytes(v4, 16, Uint32LE(16))
        v6  == SetBytes(v5, 20, Uint16LE(3))
        v7  == SetBytes(v6, 22, Uint16LE(numChannels))
        v8  == SetBytes(v7, 24, Uint32LE(sampleRate))
        v9  == SetBytes(v8, 28, Uint32LE(byteRate))
        v10 == SetBytes(v9, 32, Uint16LE(blockAlign))
        v11 == SetBytes(v10, 34, Uint16LE(bitsPerSample))
        v12 == writeString(v11, 36, "data")
    IN  SetBytes(v12, 40, Uint32LE(dataSize))

\* the RIFF, fmt and data chunk headers
WavHeader(view, dataSize) ==
    LET byteRate   == (sampleRate * numChannels * bitsPerSample) \div 8
        blockAlign == (numChannels * bitsPerSample) \div 8
        v1  == writeString(view, 0, "RIFF")
        v2  == SetBytes(v1, 4, Uint32LE(36 + dataSize))
        v3  == writeString(v2, 8, "WAVE")
        v4  == writeString(v3, 12, "fmt ")
        v5  == SetBytes(v4, 16, Uint32LE(16))
        v6  == SetBytes(v5, 20, Uint16LE(3))
        v7  == SetBytes(v6, 22, Uint16LE(numChannels))
        v8  == SetBytes(v7, 24, Uint32LE(sampleRate))
        v9  == SetBytes(v8, 28, Uint32LE(byteRate))
        v10 == SetBytes(v9, 32, Uint16LE(blockAlign))
        v11 == SetBytes(v10, 34, Uint16LE(bitsPerSample))
        v12 == writeString(v11, 36, "data")
    IN  SetBytes(v12, 40, Uint32LE(dataSize))

\* a slip of the offset: it is reset to 44 for every frame
RECURSIVE WriteSamples_Restart(_, _, _, _, _)
WriteSamples_Restart(view, fs, f, i, offset) ==
    IF f >= Len(fs) THEN view
    ELSE IF i >= FRAME_SIZE THEN WriteSamples_Restart(view, fs, f + 1, 0, 44)
    ELSE LET frame == fs[f + 1].data
             bs    == IF i < Len(frame) THEN Float32LE(frame[i + 1])
                                        ELSE Float32NaN
         IN  WriteSamples_Restart(SetBytes(view, offset, bs),
                                  fs, f, i + 1, offset + 4)

\* frames.forEach(frame => { for (i ...) { view.setFloat32(offset, frame[i],
\* true); offset += 4 } }), from sample i of frame f on
RECURSIVE WriteSamples(_, _, _, _, _)
WriteSamples(view, fs, f, i, offset) ==
    IF f >= Len(fs) THEN view
    ELSE IF i >= FRAME_SIZE THEN WriteSamples(view, fs, f + 1, 0, offset)
    ELSE LET frame == fs[f + 1].data
             bs    == IF i < Len(frame) THEN Float32LE(frame[i + 1])
                                        ELSE Float32NaN
         IN  WriteSamples(SetBytes(view, offset, bs),
                          fs, f, i + 1, offset + 4)

\* the bytes of the Blob
exportWavetableToWav(fs) ==
    LET numFrames == Len(fs)
        dataSize  == numFrames * FRAME_SIZE * numChannels * 4
        buffer    == [p \in 1 .. 44 + dataSize |-> 0]
    IN  WriteSamples(WavHeader(buffer, dataSize), fs, 0, 0, 44)

\* the Export button: the Blob is handed to the browser as a download
downloadWav ==
    /\ mounted
    /\ op' = "downloadWav"
    /\ UNCHANGED <<frames, currentIndex, mounted, localDataRef, mode, formula>>
    /\ UnchangedPlayback
    /\ UNCHANGED call
    /\ UnchangedEditors

-----------------------------------------------------------------------------
(* Direct calls of the exported functions and of the brush.  The arguments *)
(* are drawn by the initial state; one action is one call.                 *)

\* sample values a frame may hold
Samples == -AMP .. AMP

Buffers == [1 .. FRAME_SIZE -> Samples]

\* sums of harmonics before normalisation exceed the frame's range
SumBuffers == [1 .. FRAME_SIZE -> -2 * AMP .. 2 * AMP]

\* the texts given to generateFromFormula
FormulaTexts == Formulas \cup {"x", "1/i", "0/i", "-1/i", "i ? x.y.z : 1"}

\* what getCursorPosition may return
Positions == [index : 0 .. FRAME_SIZE, amp : Samples]

\* the frames a stroke is drawn on
StrokeBuffers ==
    {generateSine} \cup {[i \in 1 .. FRAME_SIZE |-> v] : v \in Samples}

CallInputs ==
    [fn : {"generateFromFormula"}, formula : FormulaTexts,
     calls : {0}, buffer : {<<>>}]
    \cup {[fn |-> "handleMove", prev |-> p, curr |-> c, calls |-> 0,
            frame |-> b, buffer |-> b] :
                p \in Positions, c \in Positions, b \in StrokeBuffers}
    \cup [fn : {"normalizeBuffer"}, calls : {0}, buffer : SumBuffers]
    \cup [fn : {"applyBrush"}, radius : {ScaledBrushSize, brushSize},
          centerIndex : 0 .. FRAME_SIZE, amp : Samples,
          calls : {0}, buffer : Buffers]

UnchangedApp ==
    UNCHANGED <<frames, currentIndex, isPlaying, mode, formula,
                scanIntervalRef, harmonics, harmTimer, imgPending, isDrawing,
                prevPosRef, localDataRef, mounted>>

\* buffer = generateFromFormula(formula)
callGenerateFromFormula ==
    /\ call.fn = "generateFromFormula"
    /\ call.calls = 0
    /\ call' = [call EXCEPT !.buffer = generateFromFormula(call.formula),
                            !.calls = 1]
    /\ op' = "generateFromFormula"
    /\ UnchangedApp

\* normalizeBuffer(buffer): the buffer is scaled in place; called up to twice
callNormalizeBuffer ==
    /\ call.fn = "normalizeBuffer"
    /\ call.calls < 2
    /\ call' = [call EXCEPT !.buffer = normalizeBuffer(@), !.calls = @ + 1]
    /\ op' = "normalizeBuffer"
    /\ UnchangedApp

\* applyBrush(buffer, centerIndex, amp): the buffer is changed in place
callApplyBrush ==
    /\ call.fn = "applyBrush"
    /\ call.calls = 0
    /\ call' = [call EXCEPT !.buffer = applyBrushOf(call.radius, @,
                                           call.centerIndex, call.amp, 1),
                            !.calls = 1]
    /\ op' = "applyBrush"
    /\ UnchangedApp

\* the strokes of handleMove on buffer, its copy of the frame, from the
\* remembered position prev to the pointer's position curr
callHandleMove ==
    /\ call.fn = "handleMove"
    /\ call.calls = 0
    /\ call' = [call EXCEPT !.buffer = MoveStroke(@, call.prev, call.curr),
                            !.calls = 1]
    /\ op' = "handleMove"
    /\ UnchangedApp

-----------------------------------------------------------------------------
(* Specifications *)

\* no call is being examined
NoCall == [fn |-> "none"]

\* the application after construction
AppInit ==
    /\ frames = <<[ref |-> 1, data |-> generateSine]>>
    /\ currentIndex = 0
    /\ isPlaying = FALSE
    /\ mode = "DRAW"
    /\ formula = InitialFormula
    /\ scanIntervalRef = 0
    /\ harmonics = InitialHarmonics
    /\ harmTimer = -1
    /\ imgPending = <<>>
    /\ isDrawing = FALSE
    /\ prevPosRef = NoPos
    /\ localDataRef = generateSine
    /\ mounted = TRUE
    /\ op = "init"

Init == AppInit /\ call = NoCall

TableOps ==
    \/ addFrame
    \/ duplicateFrame
    \/ deleteFrame
    \/ sliderSelect
    \/ wavetable3DClick

\* the table and the transport
Next ==
    \/ TableOps
    \/ morphBetween
    \/ togglePlay
    \/ handleScanPlayback
    \/ scanTick

Spec == Init /\ [][Next]_vars

\* the table, morphing and the formula generator
NextMath ==
    \/ TableOps
    \/ morphBetween
    \/ setMode
    \/ setFormula
    \/ handleFormulaGenerate
    \/ harmonicTimerFires

SpecMath == Init /\ [][NextMath]_vars

\* the table and the brush
NextDraw ==
    \/ TableOps
    \/ handleStart
    \/ handleMove
    \/ handleEnd

SpecDraw == Init /\ [][NextDraw]_vars

\* the table and the late generators: harmonic debounce and image load
NextAsync ==
    \/ TableOps
    \/ setMode
    \/ updateHarmonic
    \/ reset
    \/ randomize
    \/ harmonicTimerFires
    \/ handleImageUpload
    \/ imageLoaded
    \/ imageLoadFails

SpecAsync == Init /\ [][NextAsync]_vars

\* the table, brush strokes and the WAV export
NextExport ==
    \/ TableOps
    \/ handleStart
    \/ handleEnd
    \/ downloadWav

SpecExport == Init /\ [][NextExport]_vars

\* brush gestures, with the mode tabs and the frame selection between them
NextGesture ==
    \/ handleStart
    \/ handleMove
    \/ handleEnd
    \/ setMode
    \/ addFrame
    \/ sliderSelect

SpecGesture == Init /\ [][NextGesture]_vars

\* drawing, the mode tabs and the debounce timer; no harmonic slider or
\* button is touched
NextModes ==
    \/ handleStart
    \/ handleEnd
    \/ setMode
    \/ harmonicTimerFires
    \/ addFrame
    \/ sliderSelect

SpecModes == Init /\ [][NextModes]_vars

\* every source of samples: brush strokes, morphing, the formula, the
\* harmonic editor and the image load, on a table grown by Add Frame
NextSamples ==
    \/ handleStart
    \/ handleMove
    \/ handleEnd
    \/ morphBetween
    \/ setMode
    \/ handleFormulaGenerate
    \/ updateHarmonic
    \/ harmonicTimerFires
    \/ handleImageUpload
    \/ imageLoaded
    \/ addFrame

SpecSamples == Init /\ [][NextSamples]_vars

\* direct calls of the audioUtils functions and of the brush
InitCalls == AppInit /\ call \in CallInputs

NextCalls ==
    \/ callGenerateFromFormula
    \/ callNormalizeBuffer
    \/ callApplyBrush
    \/ callHandleMove

SpecCalls == InitCalls /\ [][NextCalls]_vars

-----------------------------------------------------------------------------
(* Properties *)

\* the samples of every table position
Data(fs) == [p \in 1 .. Len(fs) |-> fs[p].data]

\* C1: in every reachable state the cursor is a valid index into the table,
\* 0 <= currentIndex < frames.length, also under scan-playback ticks
C1_CursorValid == currentIndex >= 0 /\ currentIndex < Len(frames)

\* C2: the table is never empty, and a delete issued when exactly one frame
\* remains leaves the frames and the cursor unchanged and does not throw
C2_NeverEmpty ==
    /\ [](Len(frames) >= 1)
    /\ [][(Len(frames) = 1 /\ op' \in {"deleteFrame", "deleteFrame.return"})
            => (frames' = frames /\ currentIndex' = currentIndex /\ mounted')]_vars

C2_Witness == op = "deleteFrame.return" /\ Len(frames) = 1 /\ mounted

\* C3: the table length never exceeds MAX_FRAMES, whatever sequence of add,
\* duplicate, delete and morph operations is issued
C3_LengthAtMostMax == Len(frames) <= MAX_FRAMES

\* C4: every entry of the table is a buffer of exactly FRAME_SIZE samples:
\* no position holds a buffer of another length or no buffer at all
C4_EveryEntryIsAFrame ==
    \A p \in 1 .. Len(frames) :
        IsBuffer(frames[p]) /\ Len(frames[p].data) = FRAME_SIZE

\* C5: no two table positions share the same buffer storage, and a brush
\* edit changes the samples of the frame at the cursor only
C5_NoSharedStorage ==
    /\ [](\A p, q \in 1 .. Len(frames) : p # q => frames[p].ref # frames[q].ref)
    /\ [][op' \in {"handleStart", "handleMove"}
            => /\ Len(frames') = Len(frames)
               /\ \A p \in 1 .. Len(frames) :
                    p # currentIndex + 1 => frames'[p].data = frames[p].data]_vars

C5_Witness ==
    /\ op \in {"handleStart", "handleMove"}
    /\ Len(frames) >= 2
    /\ \E p \in 1 .. Len(frames) : frames[p].data # frames[currentIndex + 1].data

\* C6: every committed replacement, also one delivered late by the harmonic
\* debounce timer or an image load, overwrites the frame at the position the
\* cursor has when it is applied and leaves the length and every other frame
\* unchanged
C6_ReplacesAtCursor ==
    [][op' \in {"harmonicTimerFires", "imageLoaded"}
        => /\ Len(frames') = Len(frames)
           /\ \A p \in 1 .. Len(frames) :
                p # currentIndex + 1 => frames'[p].data = frames[p].data]_vars

\* C7: add, when length < MAX_FRAMES, appends one frame whose samples equal
\* the current frame's, keeps the existing frames and their order, and moves
\* the cursor to the new last index
C7_AddAppendsCopy ==
    [][(op' = "addFrame" /\ Len(frames) < MAX_FRAMES)
        => /\ Data(frames') = Append(Data(frames), frames[currentIndex + 1].data)
           /\ currentIndex' = Len(frames)]_vars

C7_Witness ==
    /\ op = "addFrame"
    /\ Len(frames) >= 3
    /\ currentIndex = Len(frames) - 1
    /\ frames[1].data # frames[Len(frames)].data

\* C8: Duplicate is the same operation as Add Frame: the same resulting
\* frames and the same resulting cursor (the new last index when accepted,
\* the state unchanged when length = MAX_FRAMES)
C8_DuplicateIsAdd ==
    [][op' = "duplicateFrame"
        => IF Len(frames) < MAX_FRAMES
           THEN /\ Data(frames') = Append(Data(frames), frames[currentIndex + 1].data)
                /\ currentIndex' = Len(frames)
           ELSE frames' = frames /\ currentIndex' = currentIndex]_vars

\* C9: delete, when length > 1, removes exactly the frame at the cursor,
\* keeps the other frames in their order, and sets the cursor to
\* min(oldCursor, newLength - 1)
C9_DeleteRemovesCurrent ==
    [][(op' = "deleteFrame" /\ Len(frames) > 1)
        => /\ Data(frames') = SubSeq(Data(frames), 1, currentIndex)
                                \o SubSeq(Data(frames), currentIndex + 2, Len(frames))
           /\ currentIndex' = Min(currentIndex, Len(frames) - 2)]_vars

C9_Witness ==
    /\ op = "deleteFrame"
    /\ Len(frames) >= 2
    /\ currentIndex >= 1
    /\ frames[1].data # frames[2].data

\* C10: morphBetween is a no-op on fewer than 3 frames; on 3 or more it
\* leaves the length, the cursor and the first and last frames' samples
\* unchanged
C10_MorphKeepsShape ==
    [][op' \in {"morphBetween", "morphBetween.return"}
        => IF Len(frames) < 3
           THEN frames' = frames /\ currentIndex' = currentIndex
           ELSE /\ Len(frames') = Len(frames)
                /\ currentIndex' = currentIndex
                /\ frames'[1].data = frames[1].data
                /\ frames'[Len(frames)].data = frames[Len(frames)].data]_vars

C10_Witness ==
    /\ op = "morphBetween"
    /\ Len(frames) >= 3
    /\ frames[1].data # frames[Len(frames)].data
    /\ frames[2].data # frames[1].data

\* C11: after morphBetween on count >= 3 frames every interior frame k holds,
\* for every sample i, first[i] * (1 - k/(count-1)) + last[i] * (k/(count-1))
\* of the first and last frames before the morph, whatever the interior
\* frames held before
C11_MorphInterpolates ==
    [][(op' = "morphBetween" /\ Len(frames) >= 3)
        => \A k \in 1 .. Len(frames) - 2 : \A i \in 1 .. FRAME_SIZE :
              LET count == Len(frames)
                  first == frames[1].data
                  last  == frames[count].data
              IN  frames'[k + 1].data[i]
                    = Q(first[i] * (count - 1 - k) + last[i] * k, count - 1)]_vars

\* a morph of 4 frames with different ends, whose interior frames differ
\* from each other and from what the positions held before
C11_Witness ==
    /\ op = "morphBetween"
    /\ Len(frames) = DupCap
    /\ frames[1].data # frames[DupCap].data
    /\ frames[2].data # frames[3].data
    /\ frames[2].data # frames[1].data
    /\ frames[3].data # frames[DupCap].data

\* C12: formula generation isolates a per-sample failure: when evaluating
\* the expression throws at some index, that sample alone is 0 and every
\* other sample of the returned buffer holds its own clipped result
C12_ThrowIsolated ==
    [][(call.fn = "generateFromFormula" /\ call'.calls = 1
            /\ Constructs(call.formula))
        => \A i \in Indices :
              LET r == Eval(call.formula, i)
              IN  call'.buffer[i + 1] = IF r.k = "throw" THEN 0 ELSE HardClip(r)]_vars

\* C13: a sample whose evaluation is NaN, +Infinity or -Infinity is stored
\* as 0; a finite one is stored clamped to [-1, 1]
C13_NonFiniteIsZero ==
    [][(call.fn = "generateFromFormula" /\ call'.calls = 1
            /\ Constructs(call.formula)
            /\ \A i \in Indices : Eval(call.formula, i).k # "throw")
        => \A i \in Indices :
              LET r == Eval(call.formula, i)
              IN  call'.buffer[i + 1]
                    = IF r.k \in {"nan", "inf"} THEN 0
                      ELSE Max(-AMP, Min(AMP, r.v))]_vars

\* C14: a formula that cannot be constructed propagates no exception:
\* generateFromFormula returns the sine buffer of FRAME_SIZE samples, and
\* committing it replaces the frame at the cursor only; the other frames,
\* the length and the cursor are unchanged
C14_BadFormulaFallsBack ==
    [][(op' = "handleFormulaGenerate" /\ ~Constructs(formula))
        => /\ mounted'
           /\ Len(frames') = Len(frames)
           /\ currentIndex' = currentIndex
           /\ frames'[currentIndex + 1].data = generateSine
           /\ Len(frames'[currentIndex + 1].data) = FRAME_SIZE
           /\ \A p \in 1 .. Len(frames) :
                p # currentIndex + 1 => frames'[p].data = frames[p].data]_vars

C14_Witness ==
    /\ op = "handleFormulaGenerate"
    /\ ~Constructs(formula)
    /\ Len(frames) >= 2
    /\ frames[currentIndex + 1].data = generateSine
    /\ \E p \in 1 .. Len(frames) : frames[p].data # generateSine

\* the unsigned 32-bit little-endian field at a byte offset of a file
ReadUint32(wav, offset) ==
    wav[offset + 1] + 256 * wav[offset + 2] + 65536 * wav[offset + 3]
        + 16777216 * wav[offset + 4]

\* the sample (grid units) a float-WAV reader decodes from the 4 bytes at a
\* byte offset
ReadFloat32(wav, offset) ==
    LET b0 == wav[offset + 1]
        b1 == wav[offset + 2]
        b2 == wav[offset + 3]
        b3 == wav[offset + 4]
        sign == b3 \div 128
        E    == (b3 % 128) * 2 + b2 \div 128
        m    == (b2 % 128) * 65536 + b1 * 256 + b0
        mag  == IF E = 0 /\ m = 0 THEN 0
                ELSE IF E >= 127
                     THEN Q(AMP * (8388608 + m) * Pow2(E - 127), 8388608)
                     ELSE Q(AMP * (8388608 + m), 8388608 * Pow2(127 - E))
    IN  IF sign = 1 THEN -mag ELSE mag

\* C15: for a table of n frames, 1 <= n <= MAX_FRAMES, the exported file is
\* exactly 44 + n * FRAME_SIZE * 4 bytes long, its RIFF chunk-size field
\* (offset 4) is 36 + dataSize and its data subchunk-size field (offset 40)
\* is dataSize = n * FRAME_SIZE * 4, both read back unwrapped from their
\* 32-bit fields
C15_WavSizes ==
    [][(op' = "downloadWav" /\ Len(frames) >= 1 /\ Len(frames) <= MAX_FRAMES)
        => LET wav      == exportWavetableToWav(frames)
               dataSize == Len(frames) * FRAME_SIZE * 4
           IN  /\ Len(wav) = 44 + dataSize
               /\ ReadUint32(wav, 4) = 36 + dataSize
               /\ ReadUint32(wav, 40) = dataSize
               /\ Len(frames) = 1 => Len(wav) = 44 + FRAME_SIZE * 4]_vars

C15_Witness ==
    /\ op = "downloadWav"
    /\ Len(frames) = MAX_FRAMES

\* C16: sample i of frame f occupies the 4 bytes at offset
\* 44 + 4 * (f * FRAME_SIZE + i); decoding the data chunk and splitting it
\* into cycles of FRAME_SIZE samples returns the frames in their order; and
\* exporting changes neither the frames nor the cursor
C16_WavRoundTrip ==
    [][op' = "downloadWav"
        => LET wav == exportWavetableToWav(frames)
               n   == ReadUint32(wav, 40) \div (4 * FRAME_SIZE)
           IN  /\ \A f \in 0 .. Len(frames) - 1 : \A i \in Indices :
                     SubSeq(wav, 44 + 4 * (f * FRAME_SIZE + i) + 1,
                                 44 + 4 * (f * FRAME_SIZE + i) + 4)
                       = Float32LE(frames[f + 1].data[i + 1])
               /\ Len(wav) = 44 + 4 * Len(frames) * FRAME_SIZE
               /\ [f \in 1 .. n |-> [i \in 1 .. FRAME_SIZE |->
                       ReadFloat32(wav, 44 + 4 * ((f - 1) * FRAME_SIZE + i - 1))]]
                     = Data(frames)
               /\ frames' = frames
               /\ currentIndex' = currentIndex]_vars

\* an export of several frames, not all alike, with samples 1 and -1
C16_Witness ==
    /\ op = "downloadWav"
    /\ Len(frames) >= 3
    /\ frames[1].data # frames[2].data
    /\ frames[2].data # frames[3].data
    /\ \E p \in 1 .. FRAME_SIZE : frames[2].data[p] = AMP
    /\ \E p \in 1 .. FRAME_SIZE : frames[2].data[p] = -AMP

\* the brush applied once for every entry of strokes, in their order, from
\* entry k on
RECURSIVE ApplyStrokes(_, _, _)
ApplyStrokes(buffer, strokes, k) ==
    IF k > Len(strokes) THEN buffer
    ELSE ApplyStrokes(applyBrush(buffer, strokes[k].index,
                                 strokes[k].num, strokes[k].den),
                      strokes, k + 1)

\* C17: a move from (p, pa) to (c, ca) with p # c applies the brush exactly
\* |c - p| + 1 times: centred on p, then on each next index toward c, ending
\* on c, application k = 0 .. steps with the amplitude
\* pa + (ca - pa) * k / steps; with p = c it applies the brush once, at c
\* with ca
C17_DragLeavesNoGap ==
    [][(call.fn = "handleMove" /\ call'.calls = 1)
        => LET p     == call.prev
               c     == call.curr
               steps == Abs(c.index - p.index)
               dir   == IF c.index > p.index THEN 1 ELSE -1
               strokes ==
                   IF steps = 0
                   THEN <<[index |-> c.index, num |-> c.amp, den |-> 1]>>
                   ELSE [k \in 1 .. steps + 1 |->
                           [index |-> p.index + (k - 1) * dir,
                            num   |-> p.amp * steps + (c.amp - p.amp) * (k - 1),
                            den   |-> steps]]
           IN  /\ Len(strokes) = steps + 1
               /\ strokes[1].index = p.index
               /\ strokes[steps + 1].index = c.index
               /\ call'.buffer = ApplyStrokes(call.buffer, strokes, 1)]_vars

\* a move over several samples whose result is not what one application of
\* the brush at its end gives
C17_Witness ==
    /\ call.fn = "handleMove"
    /\ call.calls = 1
    /\ Abs(call.curr.index - call.prev.index) >= 2
    /\ call.curr.amp # call.prev.amp
    /\ call.buffer # applyBrush(call.frame, call.curr.index, call.curr.amp, 1)

\* C18: gesture state does not leak: the end of a gesture clears the
\* remembered position; until the next start a pointer move changes no
\* frame and emits no change; a start applies the brush once, at the start
\* sample, and remembers that sample; and the move that follows a start
\* draws from that start's sample
C18_GestureStateLocal ==
    /\ [](~isDrawing => prevPosRef = NoPos)
    /\ [][op' = "handleEnd" => (~isDrawing' /\ prevPosRef' = NoPos)]_vars
    /\ [][(~isDrawing /\ op' \in {"handleMove", "handleMove.return"})
            => /\ op' = "handleMove.return"
               /\ frames' = frames
               /\ prevPosRef' = NoPos /\ ~isDrawing']_vars
    /\ [][op' = "handleStart"
            => /\ prevPosRef' \in Positions
               /\ frames'[currentIndex + 1].data
                    = applyBrush(frames[currentIndex + 1].data,
                                 prevPosRef'.index, prevPosRef'.amp, 1)]_vars
    /\ [][(op = "handleStart" /\ op' = "handleMove")
            => frames'[currentIndex + 1].data
                 = MoveStroke(frames[currentIndex + 1].data,
                              prevPosRef, prevPosRef')]_vars

\* a pointer move over the active canvas, ignored after the end of a
\* gesture that drew on the frame
C18_Witness ==
    /\ op = "handleMove.return"
    /\ mode = "DRAW"
    /\ ~isDrawing
    /\ prevPosRef = NoPos
    /\ frames[currentIndex + 1].data # generateSine

\* C19: applyBrush is local: at a valid centre c it sets buffer[c] exactly
\* to the target amplitude, leaves every sample further from c than the
\* radius unchanged, writes nothing outside [0, FRAME_SIZE) when the kernel
\* overlaps an edge, and keeps the buffer's length
C19_BrushIsLocal ==
    [][(call.fn = "applyBrush" /\ call'.calls = 1)
        => LET c == call.centerIndex
           IN  /\ c < FRAME_SIZE => call'.buffer[c + 1] = call.amp
               /\ \A p \in 1 .. FRAME_SIZE :
                     Abs(p - 1 - c) >= call.radius + 1
                        => call'.buffer[p] = call.buffer[p]
               /\ DOMAIN call'.buffer = 1 .. FRAME_SIZE
               /\ Len(call'.buffer) = Len(call.buffer)]_vars

\* a brush at the left edge whose kernel ends inside the frame: the centre
\* holds the amplitude and the sample beyond the radius kept another value
C19_Witness ==
    /\ call.fn = "applyBrush"
    /\ call.calls = 1
    /\ call.radius = ScaledBrushSize
    /\ call.centerIndex = 0
    /\ call.amp = AMP
    /\ call.buffer[1] = AMP
    /\ call.buffer[FRAME_SIZE] = -AMP

\* C20: normalizeBuffer is idempotent: normalising the result of
\* normalizeBuffer(b) again yields the same samples, for a buffer that was
\* scaled to peak 1 and for a silent buffer that was left unchanged; the
\* first call keeps every sample's sign
C20_NormalizeIdempotent ==
    /\ [][(call.fn = "normalizeBuffer" /\ call.calls = 1 /\ call'.calls = 2)
            => call'.buffer = call.buffer]_vars
    /\ [][(call.fn = "normalizeBuffer" /\ call.calls = 0 /\ call'.calls = 1)
            => IF \A q \in 1 .. FRAME_SIZE : call.buffer[q] = 0
               THEN call'.buffer = call.buffer
               ELSE /\ \E p \in 1 .. FRAME_SIZE : Abs(call'.buffer[p]) = AMP
                    /\ \A p \in 1 .. FRAME_SIZE :
                          /\ Abs(call'.buffer[p]) <= AMP
                          /\ call.buffer[p] > 0 => call'.buffer[p] >= 0
                          /\ call.buffer[p] < 0 => call'.buffer[p] <= 0]_vars

\* the second call on a buffer whose peak the first call brought to 1,
\* with samples of both signs and of different magnitudes
C20_Witness ==
    /\ call.fn = "normalizeBuffer"
    /\ call.calls = 2
    /\ \E p, q, r \in 1 .. FRAME_SIZE :
          /\ call.buffer[p] = AMP
          /\ call.buffer[q] = -AMP
          /\ call.buffer[r] = 0

\* C21: switching the generator mode by itself never changes the content of
\* a frame: with no slider moved, no button pressed, no image uploaded and
\* nothing drawn since, the frames are what they were before the switch,
\* also after the pending timer has fired
C21_ModeSwitchKeepsFrames ==
    [][op' \in {"setMode", "harmonicTimerFires"}
        => Data(frames') = Data(frames)]_vars

C23_PointerIndexValid ==
    [][op' \in {"handleStart", "handleMove"}
        => LET c == prevPosRef'
           IN  /\ c.index >= 0
               /\ c.index <= FRAME_SIZE - 1
               /\ frames'[currentIndex + 1].data[c.index + 1] = c.amp]_vars

====
